---- MODULE Spec2Model ----
(***************************************************************************)
(* Model of simhandler/regressiontools.py: the constructors of             *)
(* ANNRegression, ParametricRegression and TrainRNN (data splitting, model *)
(* construction, training, evaluation, optional persistence), the model    *)
(* artifacts on disk (saveModel / loadModel), the HyperparamSearch grid    *)
(* driver with its text export/import, and epochAnalysis.                  *)
(*                                                                         *)
(* Python values that live in dynamically typed slots are records with a   *)
(* "kind" field, so that a missing attribute, None, False and a real value *)
(* can be told apart.  Calls into Keras / TensorFlow / h5py that can fail  *)
(* for reasons outside this file take their outcome from the environment.  *)
(***************************************************************************)
EXTENDS Integers, Sequences, FiniteSets, TLC

VARIABLES
    caller,           \* who runs the constructor: "client", "HyperparamSearch", "epochAnalysis"
    cls,              \* class whose constructor is running
    load_profile,     \* constructor argument
    voltage_profile,  \* constructor argument
    args,             \* the constructor's keyword arguments
    obj,              \* the attributes of the object under construction
    pc,               \* position inside the constructor
    calls,            \* the steps the constructor has run, in order
    json_files,       \* ./data/lookup_tables/<name>.json
    h5_files,         \* ./data/lookup_tables/<name>.h5
    h5_open,          \* names of the .h5 files this process still holds open
    pr_objs,          \* the ParametricRegression instances: training data, self.theta
    last_saved,       \* per name, the theta last handed to ParametricRegression.saveModel
    ret,              \* the last call a client made and how it ended
    TrainANN,         \* what the module global TrainANN is bound to
    search_type,      \* HyperparamSearch's argument
    hs,               \* the attributes of the HyperparamSearch object
    hs_pc,            \* position inside HyperparamSearch.__init__
    loop,             \* the grid loop's indices i, j, k
    results_files,    \* ./data/hyperparamsearchresults_<runtime>seconds.txt
    exports,          \* how many times exportResults has written a file
    written,          \* per runtime, the solution_matrix exportResults wrote
    study_sizes,      \* epochAnalysis's argument
    ep_pc,            \* position inside epochAnalysis
    ep_idx,           \* index of the study size being processed
    results,          \* epochAnalysis's local list
    epochs_run,       \* per study size so far, the epochs model.fit ran
    pfs               \* epochAnalysis's local PowerFlowSim object

ctorVars == <<caller, cls, load_profile, voltage_profile, args, obj, pc, calls>>
fileVars == <<json_files, h5_files, h5_open>>
storeVars == <<pr_objs, last_saved>>
hsVars == <<TrainANN, search_type, hs, hs_pc, loop, results_files, exports, written>>
epVars == <<study_sizes, ep_pc, ep_idx, results, epochs_run, pfs>>
outerVars == <<storeVars, ret, hsVars, epVars>>

----------------------------------------------------------------------------
(* Bounds of the model *)

MaxRows == 3
PctDen == 4
MaxHidden == 3
RowWidth == 1
MaxMatrixRows == 2
MaxRowLen == 2

(* Program constants *)

DEFAULT_TRAIN_PCT_NUM == 7
DEFAULT_TRAIN_PCT_DEN == 10
DEFAULT_LEARNING_RATE == 1
DEFAULT_LAYER_DENSITY == 64
DEFAULT_NO_EPOCHS == 1000
PATIENCE == 200
LR_START == 1
LR_STOP == 100
LR_STEP == 20
HL_START == 1
HL_STOP == 2
HL_STEP == 1
LD_START == 50
LD_STOP == 60
LD_STEP == 10
EPOCH_ANALYSIS_NO_EPOCHS == 3000

----------------------------------------------------------------------------
(* Python values *)

None == [kind |-> "None"]
Unset == [kind |-> "Unset"]
False == [kind |-> "False"]
Array(rows) == [kind |-> "array", rows |-> rows]

Min(a, b) == IF a <= b THEN a ELSE b

\* s[a:b] on a sequence, 0-based and clamped as Python clamps a slice.
Slice(s, a, b) ==
    LET lo == Min(a, Len(s))
        hi == Min(b, Len(s))
    IN  IF lo >= hi THEN <<>> ELSE SubSeq(s, lo + 1, hi)

\* s[a:]
SliceFrom(s, a) == Slice(s, a, Len(s))

\* int(train_percentage * len(load_profile)), train_percentage = num/den
SplitIndex(num, den, n) == (num * n) \div den

\* First row of the test partition: load_profile[_split_index+1:]
TestStart(split_index) == split_index + 1

----------------------------------------------------------------------------
(* Inputs *)

\* A load row and the voltage row the power-flow simulation pairs with it.
LoadRows == {"l1", "l2"}
VoltageOf(l) == IF l = "l1" THEN "v1" ELSE "v2"

LoadProfiles == UNION {[1..n -> LoadRows] : n \in 0..MaxRows}
VoltageProfileOf(lp) == [i \in 1..Len(lp) |-> VoltageOf(lp[i])]

\* train_percentage as a fraction num/den in [0,1]; 7/10 is the default.
Percentages ==
    {[num |-> k, den |-> PctDen] : k \in 0..PctDen}
    \cup {[num |-> DEFAULT_TRAIN_PCT_NUM, den |-> DEFAULT_TRAIN_PCT_DEN]}

\* dropout: False (the default), a rate Keras accepts, a value it rejects.
DropoutVals == {"False", "0.2", "bad"}
Truthy(d) == d # "False"
DropoutRejected(d) == d = "bad"

DefaultArgs ==
    [train_percentage |-> [num |-> DEFAULT_TRAIN_PCT_NUM,
                           den |-> DEFAULT_TRAIN_PCT_DEN],
     learning_rate |-> DEFAULT_LEARNING_RATE,
     no_hidden_layers |-> 1,
     layer_density |-> DEFAULT_LAYER_DENSITY,
     dropout |-> "False",
     no_epochs |-> DEFAULT_NO_EPOCHS,
     early_stop |-> FALSE,
     save_model |-> FALSE,
     plot_results |-> FALSE]

NoAttributes ==
    [train_data |-> Unset, train_labels |-> Unset,
     test_data |-> Unset, test_labels |-> Unset,
     train |-> Unset, test |-> Unset,
     model |-> Unset, history |-> Unset, model_name |-> Unset,
     theta |-> Unset, bias |-> Unset, name |-> Unset]

\* load_profile is not None and voltage_profile is not None
BothGiven == load_profile # None /\ voltage_profile # None

NoFiles == [n \in {} |-> None]
Put(files, name, content) ==
    [n \in DOMAIN files \cup {name} |-> IF n = name THEN content ELSE files[n]]

----------------------------------------------------------------------------
(* ANNRegression *)

Dense(units, activation) ==
    [type |-> "Dense", units |-> units, activation |-> activation, rate |-> "-"]
Dropout(rate) ==
    [type |-> "Dropout", units |-> 0, activation |-> "-", rate |-> rate]

\* range(1, no_hidden_layers)
HiddenRangeFromZero(no_hidden_layers) == 0..(no_hidden_layers - 1)
HiddenRange(no_hidden_layers) == 1..(no_hidden_layers - 1)

\* try: model.add(Dropout(dropout)) except BaseException: print(...)
TryAddDropout(layers, dropout) ==
    IF DropoutRejected(dropout) THEN layers ELSE Append(layers, Dropout(dropout))

\* One pass of the loop body of buildModel.
HiddenStep(layers, layer_density, dropout) ==
    LET with_dropout == IF Truthy(dropout)
                        THEN TryAddDropout(layers, dropout)
                        ELSE layers
    IN  Append(with_dropout, Dense(layer_density, "relu"))

RECURSIVE HiddenLoop(_, _, _, _)
HiddenLoop(layers, todo, layer_density, dropout) ==
    IF todo = 0 THEN layers
    ELSE HiddenLoop(HiddenStep(layers, layer_density, dropout), todo - 1,
                    layer_density, dropout)

\* The layers buildModel adds to the Sequential model, in order.
BuildLayers(no_hidden_layers, layer_density, dropout) ==
    LET first == <<Dense(layer_density, "relu")>>
        hidden == HiddenLoop(first, Cardinality(HiddenRange(no_hidden_layers)),
                             layer_density, dropout)
    IN  Append(hidden, Dense(RowWidth, "linear"))

Model(layers, compiled, learning_rate) ==
    [kind |-> "model", layers |-> layers, compiled |-> compiled,
     learning_rate |-> learning_rate]

\* Epochs model.fit can run: all of them, or fewer once EarlyStopping's
\* patience is exhausted (never before patience + 1 epochs).
FitEpochs(no_epochs, early_stop) ==
    IF early_stop THEN {Min(no_epochs, PATIENCE + 1), no_epochs}
    ELSE {no_epochs}

History(epochs) == [kind |-> "history", epochs |-> epochs]

\* 'ann_model_' + str(datetime.datetime.now())...
AnnModelName == [kind |-> "str", s |-> "ann_model_now"]

\* saveModel: the architecture as JSON, then the weights as HDF5.  fail names
\* the write the environment refuses ("none", "json", "h5"); creating an .h5
\* file that this process still holds open is refused by HDF5.
SaveModelANN(model, name, fail) ==
    LET h5_refused == fail = "h5" \/ name \in h5_open
    IN  [raised |-> fail = "json" \/ h5_refused,
         json |-> IF fail = "json" THEN json_files
                  ELSE Put(json_files, name,
                           [kind |-> "json", layers |-> model.layers]),
         h5 |-> IF fail = "json" \/ h5_refused THEN h5_files
                ELSE Put(h5_files, name,
                         [kind |-> "weights", layers |-> model.layers])]

\* __init__, lines 33-39: the None check and the data split.
ANNSplit ==
    /\ cls = "ANNRegression" /\ pc = "start"
    /\ IF load_profile # None /\ voltage_profile # None
       THEN LET _split_index == SplitIndex(args.train_percentage.num,
                                           args.train_percentage.den,
                                           Len(load_profile.rows))
            IN  /\ obj' = [obj EXCEPT
                     !.train_data = Array(Slice(load_profile.rows, 0, _split_index)),
                     !.train_labels = Array(Slice(voltage_profile.rows, 0, _split_index)),
                     !.test_data = Array(SliceFrom(load_profile.rows,
                                                   TestStart(_split_index))),
                     !.test_labels = Array(SliceFrom(voltage_profile.rows,
                                                     TestStart(_split_index)))]
                /\ calls' = Append(calls, "split")
                /\ pc' = "split"
       ELSE /\ pc' = "returned"
            /\ UNCHANGED <<obj, calls>>
    /\ UNCHANGED <<caller, cls, load_profile, voltage_profile, args, fileVars, outerVars>>

\* __init__, lines 41-42: buildModel.
ANNBuildModel ==
    /\ cls = "ANNRegression" /\ pc = "split"
    /\ \E ok \in BOOLEAN :
         /\ obj' = [obj EXCEPT !.model =
                      IF ok THEN Model(BuildLayers(args.no_hidden_layers,
                                                   args.layer_density,
                                                   args.dropout),
                                       TRUE, args.learning_rate)
                      ELSE Model(<<>>, FALSE, args.learning_rate)]
         /\ pc' = IF ok THEN "built" ELSE "raised"
    /\ calls' = Append(calls, "buildModel")
    /\ UNCHANGED <<caller, cls, load_profile, voltage_profile, args, fileVars, outerVars>>

\* __init__, line 43: trainModel.
ANNTrainModel ==
    /\ cls = "ANNRegression" /\ pc = "built"
    /\ \/ \E e \in FitEpochs(args.no_epochs, args.early_stop) :
            /\ obj' = [obj EXCEPT !.history = History(e)]
            /\ pc' = "trained"
       \/ /\ pc' = "raised"
          /\ UNCHANGED obj
    /\ calls' = Append(calls, "trainModel")
    /\ UNCHANGED <<caller, cls, load_profile, voltage_profile, args, fileVars, outerVars>>

\* __init__, line 44: evaluateModel (the rmse it returns is dropped).
ANNEvaluateModel ==
    /\ cls = "ANNRegression" /\ pc = "trained"
    /\ \E ok \in BOOLEAN : pc' = IF ok THEN "evaluated" ELSE "raised"
    /\ calls' = Append(calls, "evaluateModel")
    /\ UNCHANGED <<caller, cls, load_profile, voltage_profile, args, obj, fileVars, outerVars>>

\* __init__, line 45: predictWithModel (plots when plot_results).
ANNPredictWithModel ==
    /\ cls = "ANNRegression" /\ pc = "evaluated"
    /\ \E ok \in BOOLEAN : pc' = IF ok THEN "predicted" ELSE "raised"
    /\ calls' = Append(calls, "predictWithModel")
    /\ UNCHANGED <<caller, cls, load_profile, voltage_profile, args, obj, fileVars, outerVars>>

\* if save_model:
SaveWantedAlways(save_model) == TRUE
SaveWanted(save_model) == save_model

\* __init__, lines 46-49: the optional saveModel, then the return.
ANNFinish ==
    /\ cls = "ANNRegression" /\ pc = "predicted"
    /\ IF SaveWanted(args.save_model)
       THEN \E fail \in {"none", "json", "h5"} :
              LET r == SaveModelANN(obj.model, AnnModelName.s, fail)
              IN  /\ obj' = [obj EXCEPT !.model_name = AnnModelName]
                  /\ calls' = Append(calls, "saveModel")
                  /\ json_files' = r.json
                  /\ h5_files' = r.h5
                  /\ pc' = IF r.raised THEN "raised" ELSE "returned"
       ELSE /\ pc' = "returned"
            /\ UNCHANGED <<obj, calls, json_files, h5_files>>
    /\ UNCHANGED <<caller, cls, load_profile, voltage_profile, args, h5_open, outerVars>>

----------------------------------------------------------------------------
(* ParametricRegression *)

Dict(data, target) == [kind |-> "dict", data |-> data, target |-> target]

\* calculateTheta: the normal equation on the training partition.  The
\* numbers are TensorFlow's; the model keeps only that a theta was fitted.
NormalEquation(train) == [kind |-> "array", v |-> [fitted_to |-> train]]

\* 'ne_model_' + str(datetime.datetime.now())...
NeModelName == [kind |-> "str", s |-> "ne_model_now"]

\* np.array(self.theta): an array as it is, an HDF5 dataset read from its file.
ThetaData(theta) ==
    IF theta.kind = "dataset" THEN h5_files[theta.name].data ELSE theta.v

\* saveModel: h5py.File(path, 'w') and create_dataset('data', theta).
\* Truncating a file this process still holds open is refused by HDF5.
SaveModelPR(theta, name, fail) ==
    LET refused == fail \/ name \in h5_open
    IN  [raised |-> refused,
         h5 |-> IF refused THEN h5_files
                ELSE Put(h5_files, name,
                         [kind |-> "theta", data |-> ThetaData(theta)])]

\* __init__, lines 186-204.  fail names the step the environment lets raise:
\* "theta" (the matrix inverse), "save" (the file), or "none".
PRInit ==
    /\ cls = "ParametricRegression" /\ pc = "start"
    /\ IF load_profile # None /\ voltage_profile # None
       THEN \E fail \in {"none", "theta", "save"} :
            LET _split_index == SplitIndex(args.train_percentage.num,
                                           args.train_percentage.den,
                                           Len(load_profile.rows))
                train == Dict(Slice(load_profile.rows, 0, _split_index),
                              Slice(voltage_profile.rows, 0, _split_index))
                test == Dict(SliceFrom(load_profile.rows, TestStart(_split_index)),
                             SliceFrom(voltage_profile.rows, TestStart(_split_index)))
                split == [obj EXCEPT !.train = train, !.test = test]
                theta == NormalEquation(train)
                fitted == [split EXCEPT !.theta = theta, !.bias = theta]
                r == SaveModelPR(theta, NeModelName.s, fail = "save")
            IN  IF fail = "theta"
                THEN /\ obj' = split
                     /\ calls' = <<"split", "calculateTheta">>
                     /\ pc' = "raised"
                     /\ UNCHANGED h5_files
                ELSE IF args.save_model
                THEN /\ obj' = [fitted EXCEPT !.model_name = NeModelName]
                     /\ calls' = <<"split", "calculateTheta", "calculateBias",
                                   "predictWithModel", "evaluateModel", "saveModel">>
                     /\ h5_files' = r.h5
                     /\ pc' = IF r.raised THEN "raised" ELSE "returned"
                ELSE /\ obj' = fitted
                     /\ calls' = <<"split", "calculateTheta", "calculateBias",
                                   "predictWithModel", "evaluateModel">>
                     /\ pc' = "returned"
                     /\ UNCHANGED h5_files
       ELSE /\ pc' = "returned"
            /\ UNCHANGED <<obj, calls, h5_files>>
    /\ UNCHANGED <<caller, cls, load_profile, voltage_profile, args,
                   json_files, h5_open, outerVars>>

----------------------------------------------------------------------------
(* TrainRNN *)

\* __init__, lines 266-274.  There is no None check: len(None) raises.
RNNInit ==
    /\ cls = "TrainRNN" /\ pc = "start"
    /\ IF load_profile # None /\ voltage_profile # None
       THEN LET _split_index == SplitIndex(args.train_percentage.num,
                                           args.train_percentage.den,
                                           Len(load_profile.rows))
            IN  /\ obj' = [obj EXCEPT
                     !.train_data = Array(Slice(load_profile.rows, 0, _split_index)),
                     !.train_labels = Array(Slice(voltage_profile.rows, 0, _split_index)),
                     !.test_data = Array(SliceFrom(load_profile.rows,
                                                   TestStart(_split_index))),
                     !.test_labels = Array(SliceFrom(voltage_profile.rows,
                                                     TestStart(_split_index))),
                     !.name = [kind |-> "str", s |-> "ann_model"]]
                /\ calls' = Append(calls, "split")
                /\ pc' = "returned"
       ELSE /\ pc' = "raised"
            /\ UNCHANGED <<obj, calls>>
    /\ UNCHANGED <<caller, cls, load_profile, voltage_profile, args, fileVars, outerVars>>

----------------------------------------------------------------------------
(* What the parts of the program that a specification leaves out are set to *)

NoCall == [op |-> "none", inst |-> "-", name |-> "-", raised |-> FALSE,
           failed |-> "none", env |-> FALSE, value |-> None]

StoreIdle ==
    /\ pr_objs = <<>>
    /\ last_saved = NoFiles
    /\ ret = NoCall

HSIdle ==
    /\ TrainANN = "undefined"
    /\ search_type = "grid"
    /\ hs = [solution_matrix |-> Unset, params |-> Unset, runtime |-> Unset]
    /\ hs_pc = "idle"
    /\ loop = <<0, 0, 0>>
    /\ results_files = NoFiles
    /\ exports = 0
    /\ written = NoFiles

EpIdle ==
    /\ study_sizes = <<>>
    /\ ep_pc = "idle"
    /\ ep_idx = 0
    /\ results = <<>>
    /\ epochs_run = <<>>
    /\ pfs = Unset

----------------------------------------------------------------------------
(* A client constructs one object of one of the three classes. *)

ProfilePairs ==
    {<<Array(lp), Array(VoltageProfileOf(lp))>> : lp \in LoadProfiles}
    \cup {<<None, None>>, <<None, Array(<<"v1">>)>>, <<Array(<<"l1">>), None>>}

ANNArgs ==
    {[DefaultArgs EXCEPT !.train_percentage = p, !.no_hidden_layers = h,
                         !.dropout = d, !.early_stop = e, !.save_model = s]
        : p \in Percentages, h \in 0..MaxHidden, d \in DropoutVals,
          e \in BOOLEAN, s \in BOOLEAN}

SplitArgs ==
    {[DefaultArgs EXCEPT !.train_percentage = p, !.save_model = s]
        : p \in Percentages, s \in BOOLEAN}

CtorInit ==
    /\ caller = "client"
    /\ cls \in {"ANNRegression", "ParametricRegression", "TrainRNN"}
    /\ \E pp \in ProfilePairs : load_profile = pp[1] /\ voltage_profile = pp[2]
    /\ args \in IF cls = "ANNRegression" THEN ANNArgs ELSE SplitArgs
    /\ obj = NoAttributes
    /\ pc = "start"
    /\ calls = <<>>
    /\ json_files = NoFiles
    /\ h5_files = NoFiles
    /\ h5_open = {}
    /\ StoreIdle /\ HSIdle /\ EpIdle

ANNSteps ==
    \/ ANNSplit
    \/ ANNBuildModel
    \/ ANNTrainModel
    \/ ANNEvaluateModel
    \/ ANNPredictWithModel

CtorNext ==
    \/ ANNSteps
    \/ ANNFinish
    \/ PRInit
    \/ RNNInit

vars == <<ctorVars, fileVars, outerVars>>

Init == CtorInit
Next == CtorNext
Spec == Init /\ [][Next]_vars

----------------------------------------------------------------------------
(* saveModel and loadModel called by a client *)

ModelNames == {"m1"}
Instances == {"p1", "p2"}
\* A model_name that is not a str: path + model_name raises TypeError.
NotAStr == "<not a str>"
NameArgs == ModelNames \cup {NotAStr}

Remove(files, name) == [n \in DOMAIN files \ {name} |-> files[n]]

Call(op, inst, name, raised, failed, env, value) ==
    [op |-> op, inst |-> inst, name |-> name, raised |-> raised,
     failed |-> failed, env |-> env, value |-> value]

\* The steps of ANNRegression.loadModel inside its try block (lines 163-171).
TryBlockANNWithoutWeights == {"path", "open", "decode"}
TryBlockANN == {"path", "open", "decode", "weights"}

\* ANNRegression.loadModel: the first step that fails, whether the failure
\* leaves the method as an exception, and the value returned otherwise.
\* fail names a step the environment lets fail.
LoadModelANN(model_name, fail) ==
    LET failed ==
          IF model_name = NotAStr THEN "path"
          ELSE IF model_name \notin DOMAIN json_files \/ fail = "open" THEN "open"
          ELSE IF json_files[model_name].kind # "json" \/ fail = "decode"
               THEN "decode"
          ELSE IF \/ model_name \notin DOMAIN h5_files
                  \/ fail = "weights"
                  \/ h5_files[model_name].kind # "weights"
                  \/ h5_files[model_name] # [kind |-> "weights",
                                             layers |-> json_files[model_name].layers]
               THEN "weights"
          ELSE "none"
    IN  [failed |-> failed,
         raised |-> failed # "none" /\ failed \notin TryBlockANN,
         value |-> IF failed = "none"
                   THEN Model(json_files[model_name].layers, FALSE, 0)
                   ELSE False]

\* The steps of ParametricRegression.loadModel inside its try block (247-250).
TryBlockPR == {"path", "open", "key"}

Dataset(name) == [kind |-> "dataset", name |-> name]

\* ParametricRegression.loadModel: h5py.File(path, 'r')['data'].
LoadModelPR(model_name, fail) ==
    LET failed ==
          IF model_name = NotAStr THEN "path"
          ELSE IF model_name \notin DOMAIN h5_files \/ fail THEN "open"
          ELSE IF h5_files[model_name].kind # "theta" THEN "key"
          ELSE "none"
    IN  [failed |-> failed,
         raised |-> failed # "none" /\ failed \notin TryBlockPR,
         value |-> IF failed = "none" THEN Dataset(model_name) ELSE False]

\* The .h5 files kept open: h5py closes a file that was never closed
\* explicitly only when no object read from it is referenced any more.
OpenNames(objs) ==
    {objs[i].theta.name : i \in {j \in DOMAIN objs : objs[j].theta.kind = "dataset"}}

\* ann.saveModel(name)
ANNSaveModel ==
    \E name \in NameArgs, fail \in {"none", "json", "h5"} :
      /\ pc = "returned"
      /\ IF obj.model = Unset \/ name = NotAStr
         THEN /\ ret' = Call("ANNRegression.saveModel", "-", name, TRUE, "path",
                             FALSE, None)
              /\ UNCHANGED <<json_files, h5_files, last_saved>>
         ELSE LET r == SaveModelANN(obj.model, name, fail)
              IN  /\ json_files' = r.json
                  /\ h5_files' = r.h5
                  /\ last_saved' = IF r.h5 # h5_files THEN Remove(last_saved, name)
                                   ELSE last_saved
                  /\ ret' = Call("ANNRegression.saveModel", "-", name, r.raised,
                                 IF r.raised THEN "write" ELSE "none",
                                 fail # "none", None)
      /\ UNCHANGED <<ctorVars, h5_open, pr_objs, hsVars, epVars>>

\* ann.loadModel(model_name)
ANNLoadModel ==
    \E name \in NameArgs, fail \in {"none", "open", "decode", "weights"} :
      /\ pc = "returned"
      /\ LET r == LoadModelANN(name, fail)
         IN  ret' = Call("ANNRegression.loadModel", "-", name, r.raised, r.failed,
                         fail # "none", IF r.raised THEN None ELSE r.value)
      /\ UNCHANGED <<ctorVars, fileVars, storeVars, hsVars, epVars>>

\* p.calculateTheta() on an instance that holds training data
PRCalculateTheta ==
    \E i \in DOMAIN pr_objs :
      /\ pr_objs[i].train # "Unset"
      /\ pr_objs' = [pr_objs EXCEPT ![i].theta = NormalEquation(pr_objs[i].train)]
      /\ h5_open' = OpenNames(pr_objs')
      /\ ret' = Call("ParametricRegression.calculateTheta", i, "-", FALSE, "none",
                     FALSE, None)
      /\ UNCHANGED <<ctorVars, json_files, h5_files, last_saved, hsVars, epVars>>

\* p.saveModel(model_name)
PRSaveModel ==
    \E i \in DOMAIN pr_objs, name \in NameArgs, fail \in BOOLEAN :
      /\ IF pr_objs[i].theta = Unset \/ name = NotAStr
         THEN /\ ret' = Call("ParametricRegression.saveModel", i, name, TRUE,
                             "path", FALSE, None)
              /\ UNCHANGED <<h5_files, last_saved>>
         ELSE LET r == SaveModelPR(pr_objs[i].theta, name, fail)
              IN  /\ h5_files' = r.h5
                  /\ last_saved' = IF fail THEN last_saved
                                   ELSE Put(last_saved, name,
                                            ThetaData(pr_objs[i].theta))
                  /\ ret' = Call("ParametricRegression.saveModel", i, name,
                                 r.raised, IF r.raised THEN "write" ELSE "none",
                                 fail, None)
      /\ UNCHANGED <<ctorVars, json_files, h5_open, pr_objs, hsVars, epVars>>

\* p.loadModel(model_name)
PRLoadModel ==
    \E i \in DOMAIN pr_objs, name \in NameArgs, fail \in BOOLEAN :
      LET r == LoadModelPR(name, fail)
      IN  /\ pr_objs' = IF r.failed = "none"
                        THEN [pr_objs EXCEPT ![i].theta = r.value]
                        ELSE pr_objs
          /\ h5_open' = OpenNames(pr_objs')
          /\ ret' = Call("ParametricRegression.loadModel", i, name, r.raised,
                         r.failed, fail, IF r.raised THEN None ELSE r.value)
          /\ UNCHANGED <<ctorVars, json_files, h5_files, last_saved, hsVars, epVars>>

\* An ANNRegression object, built or constructed without data, and two
\* ParametricRegression objects, each fitted to its own data or constructed
\* without data; the lookup directory is empty or holds a .json file that is
\* no model.
StoreInit ==
    /\ caller = "client" /\ cls = "ANNRegression"
    /\ load_profile = None /\ voltage_profile = None
    /\ args = DefaultArgs
    /\ obj \in {NoAttributes,
                [NoAttributes EXCEPT !.model =
                    Model(BuildLayers(1, DEFAULT_LAYER_DENSITY, "False"), TRUE,
                          DEFAULT_LEARNING_RATE)]}
    /\ pc = "returned"
    /\ calls = <<>>
    /\ json_files \in {NoFiles, Put(NoFiles, "m1", [kind |-> "garbage"])}
    /\ h5_files = NoFiles
    /\ h5_open = {}
    /\ pr_objs \in [Instances -> {[train |-> "Unset", theta |-> Unset]}
                                 \cup {[train |-> d, theta |-> NormalEquation(d)]
                                         : d \in {"d1", "d2"}}]
    /\ last_saved = NoFiles
    /\ ret = NoCall
    /\ HSIdle /\ EpIdle

StoreNext ==
    \/ ANNSaveModel
    \/ ANNLoadModel
    \/ PRCalculateTheta
    \/ PRSaveModel
    \/ PRLoadModel

SpecStore == StoreInit /\ [][StoreNext]_vars

\* C3: neither loadModel ever lets an exception out: whatever step fails
\* (building the path, opening or reading the artifact, decoding it, loading
\* the weights), the call returns False, and it returns the loaded model
\* (respectively theta) only when every step succeeded.
C3_LoadModelNeverRaises ==
    ret.op \in {"ANNRegression.loadModel", "ParametricRegression.loadModel"} =>
        /\ ~ret.raised
        /\ ret.failed # "none" <=> ret.value = False
        /\ ret.env => ret.value = False
        /\ ret.value # False =>
             /\ ret.name \in DOMAIN h5_files
             /\ IF ret.op = "ANNRegression.loadModel"
                THEN /\ ret.name \in DOMAIN json_files
                     /\ ret.value.kind = "model"
                     /\ ret.value.layers = json_files[ret.name].layers
                     /\ h5_files[ret.name].kind = "weights"
                ELSE /\ ret.value = Dataset(ret.name)
                     /\ h5_files[ret.name].kind = "theta"
                     /\ pr_objs[ret.inst].theta = ret.value

C3_Witness ==
    /\ ret.op = "ANNRegression.loadModel"
    /\ ret.failed = "weights"
    /\ ret.name \in DOMAIN json_files
    /\ ret.value = False

\* C7: ParametricRegression.loadModel(name) returns, and stores in self.theta,
\* a value equal to the theta most recently handed to saveModel(name): a later
\* saveModel under the same name replaces the earlier artifact.
C7_SaveLoadRoundTrip ==
    /\ ret.op = "ParametricRegression.loadModel"
    /\ ~ret.env
    /\ ret.name \in DOMAIN last_saved
    => /\ ret.value # False
       /\ ThetaData(ret.value) = last_saved[ret.name]
       /\ pr_objs[ret.inst].theta = ret.value

----------------------------------------------------------------------------
(* Numbers and their text *)

\* A Python int n, and a Python float of value m / 10^e whose repr is written
\* in fixed notation (e >= 1 digits after the point).
PyInt(n) == [t |-> "int", m |-> n, e |-> 0]
PyFloat(m, e) == [t |-> "float", m |-> m, e |-> e]

RECURSIVE Pow10(_)
Pow10(e) == IF e = 0 THEN 1 ELSE 10 * Pow10(e - 1)

Abs(n) == IF n < 0 THEN -n ELSE n

\* The float as repr prints it: no trailing zero after the first decimal.
RECURSIVE Canonical(_, _)
Canonical(m, e) ==
    IF e = 0 THEN PyFloat(m * 10, 1)
    ELSE IF e > 1 /\ m % 10 = 0 THEN Canonical(m \div 10, e - 1)
    ELSE PyFloat(m, e)

\* float(x) of a number
ToFloat(x) == Canonical(x.m, x.e)

Digits == <<"0", "1", "2", "3", "4", "5", "6", "7", "8", "9">>
IsDigit(c) == \E d \in 1..10 : Digits[d] = c
DigitVal(c) == (CHOOSE d \in 1..10 : Digits[d] = c) - 1

RECURSIVE NatStr(_)
NatStr(n) == IF n < 10 THEN <<Digits[n + 1]>>
             ELSE NatStr(n \div 10) \o <<Digits[(n % 10) + 1]>>

\* n as exactly width digits, zero-padded on the left
RECURSIVE Padded(_, _)
Padded(n, width) ==
    IF width = 0 THEN <<>>
    ELSE Padded(n \div 10, width - 1) \o <<Digits[(n % 10) + 1]>>

\* str(x)
Str(x) ==
    LET sign == IF x.m < 0 THEN <<"-">> ELSE <<>>
        a == Abs(x.m)
    IN  IF x.t = "int" THEN sign \o NatStr(a)
        ELSE sign \o NatStr(a \div Pow10(x.e)) \o <<".">>
                  \o Padded(a % Pow10(x.e), x.e)

RECURSIVE DigitsVal(_)
DigitsVal(ds) == IF ds = <<>> THEN 0
                 ELSE 10 * DigitsVal(SubSeq(ds, 1, Len(ds) - 1))
                      + DigitVal(ds[Len(ds)])

ValueError == [t |-> "ValueError", m |-> 0, e |-> 0]

\* float(s): an optional sign, digits with at most one point and at least one
\* digit; anything else is a ValueError.
ParseFloat(s) ==
    LET neg == Len(s) > 0 /\ s[1] = "-"
        body == IF neg THEN SubSeq(s, 2, Len(s)) ELSE s
        dots == {i \in 1..Len(body) : body[i] = "."}
        wellformed == /\ Cardinality(dots) <= 1
                      /\ \A i \in 1..Len(body) : i \in dots \/ IsDigit(body[i])
                      /\ Len(body) > Cardinality(dots)
        dot == IF dots = {} THEN Len(body) + 1 ELSE CHOOSE i \in dots : TRUE
        ds == SubSeq(body, 1, dot - 1) \o SubSeq(body, dot + 1, Len(body))
        e == IF dots = {} THEN 0 ELSE Len(body) - dot
        m == DigitsVal(ds)
    IN  IF wellformed THEN Canonical(IF neg THEN -m ELSE m, e) ELSE ValueError

\* s.split(', ')
RECURSIVE Split(_)
Split(s) ==
    LET seps == {i \in 1..(Len(s) - 1) : s[i] = "," /\ s[i + 1] = " "}
    IN  IF seps = {} THEN <<s>>
        ELSE LET i == CHOOSE j \in seps : \A k \in seps : j <= k
             IN  <<SubSeq(s, 1, i - 1)>> \o Split(SubSeq(s, i + 2, Len(s)))

\* for line in file: the text cut after each '\n'
RECURSIVE Lines(_)
Lines(text) ==
    LET nls == {i \in 1..Len(text) : text[i] = "\n"}
    IN  IF text = <<>> THEN <<>>
        ELSE IF nls = {} THEN <<text>>
        ELSE LET i == CHOOSE j \in nls : \A k \in nls : j <= k
             IN  <<SubSeq(text, 1, i)>> \o Lines(SubSeq(text, i + 1, Len(text)))

NotNewline(c) == c # "\n"
\* line.replace('\n', '')
StripNewlines(line) == SelectSeq(line, NotNewline)

----------------------------------------------------------------------------
(* HyperparamSearch *)

List(rows) == [kind |-> "list", rows |-> rows]

\* np.arange(start, stop, step): ceil((stop - start) / step) values
Arange(start, stop, step) ==
    [i \in 1..((stop - start + step - 1) \div step) |-> start + (i - 1) * step]

\* tg, the training grid (learning rates in thousandths)
GridLearningRate == Arange(LR_START, LR_STOP, LR_STEP)
GridHiddenLayers == Arange(HL_START, HL_STOP, HL_STEP)
GridLayerDensity == Arange(LD_START, LD_STOP, LD_STEP)

\* counter = 0 after each training session's line
CounterAfterRowKept(counter) == counter
CounterAfterRow(counter) == 0

\* The inner loop of exportResults from item i on: what is written, and counter.
RECURSIVE WriteItems(_, _, _, _)
WriteItems(out, training_session, i, counter) ==
    IF i > Len(training_session) THEN [out |-> out, counter |-> counter]
    ELSE LET item == out \o Str(training_session[i])
             sep == IF counter < Len(training_session) - 1
                    THEN item \o <<",", " ">>
                    ELSE item
         IN  WriteItems(sep, training_session, i + 1, counter + 1)

\* The outer loop of exportResults from row r on.
RECURSIVE WriteSessions(_, _, _, _)
WriteSessions(out, matrix, r, counter) ==
    IF r > Len(matrix) THEN out
    ELSE LET w == WriteItems(out, matrix[r], 1, counter)
         IN  WriteSessions(w.out \o <<"\n">>, matrix, r + 1,
                           CounterAfterRow(w.counter))

\* The text exportResults writes for a solution_matrix.
ExportText(matrix) == WriteSessions(<<>>, matrix, 1, 0)

\* [float(i) for i in line.replace('\n', '').split(', ')] for each line
ImportRows(text) ==
    LET lines == Lines(text)
    IN  [r \in 1..Len(lines) |->
            LET fields == Split(StripNewlines(lines[r]))
            IN  [c \in 1..Len(fields) |-> ParseFloat(fields[c])]]

ImportFails(rows) ==
    \E r \in 1..Len(rows) : \E c \in 1..Len(rows[r]) : rows[r][c] = ValueError

\* The value evaluateModel returns: rmse = np.sqrt(loss), a scalar.
EvaluateModel == [kind |-> "scalar", v |-> PyFloat(5, 2)]

\* x[i]: an item of a list; a scalar cannot be indexed.
Subscript(x, i) ==
    IF x.kind = "list" /\ i < Len(x.rows) THEN x.rows[i + 1]
    ELSE [t |-> "IndexError", m |-> 0, e |-> 0]

\* The loop indices after (i, j, k), in the order of the three nested loops.
NextLoop(l) ==
    IF l[3] + 1 < Len(GridLayerDensity) THEN <<l[1], l[2], l[3] + 1>>
    ELSE IF l[2] + 1 < Len(GridHiddenLayers) THEN <<l[1], l[2] + 1, 0>>
    ELSE <<l[1] + 1, 0, 0>>

RuntimeVals == {0, 7}

\* __init__, lines 327-339: the empty solution_matrix; with data and a grid
\* search, the grid and the header row.
HSBegin ==
    /\ hs_pc = "start"
    /\ IF load_profile # None /\ voltage_profile # None /\ search_type = "grid"
       THEN LET params == <<PyInt(Len(GridLearningRate)), PyInt(Len(GridHiddenLayers)),
                            PyInt(Len(GridLayerDensity))>>
            IN  /\ hs' = [hs EXCEPT !.solution_matrix = List(<<params>>),
                                    !.params = List(params)]
                /\ hs_pc' = "loop"
       ELSE /\ hs' = [hs EXCEPT !.solution_matrix = List(<<>>)]
            /\ hs_pc' = "returned"
    /\ loop' = <<0, 0, 0>>
    /\ UNCHANGED <<ctorVars, fileVars, storeVars, ret, TrainANN, search_type,
                   results_files, exports, written, epVars>>

\* __init__, lines 342-351 and 362-365: the next grid combination's
\* TrainANN(...) call, or after the last one the runtime and exportResults.
\* TrainANN is looked up in the module's globals when the call is reached.
HSLoop ==
    /\ hs_pc = "loop"
    /\ IF loop[1] < Len(GridLearningRate)
       THEN /\ IF TrainANN = "undefined"
               THEN /\ hs_pc' = "raised"
                    /\ UNCHANGED <<caller, cls, args, obj, pc, calls>>
               ELSE /\ hs_pc' = "training"
                    /\ caller' = "HyperparamSearch"
                    /\ cls' = TrainANN
                    /\ args' = [DefaultArgs EXCEPT
                         !.learning_rate = GridLearningRate[loop[1] + 1],
                         !.no_hidden_layers = GridHiddenLayers[loop[2] + 1],
                         !.layer_density = GridLayerDensity[loop[3] + 1]]
                    /\ obj' = NoAttributes
                    /\ pc' = "start"
                    /\ calls' = <<>>
            /\ UNCHANGED <<hs, results_files, exports, written>>
       ELSE \E runtime \in RuntimeVals, ok \in BOOLEAN :
            /\ hs' = [hs EXCEPT !.runtime = PyInt(runtime)]
            /\ IF ok
               THEN /\ results_files' = Put(results_files, Str(PyInt(runtime)),
                                            ExportText(hs.solution_matrix.rows))
                    /\ written' = Put(written, Str(PyInt(runtime)),
                                      hs.solution_matrix.rows)
                    /\ exports' = exports + 1
                    /\ hs_pc' = "returned"
               ELSE /\ hs_pc' = "raised"
                    /\ UNCHANGED <<results_files, written, exports>>
            /\ UNCHANGED <<caller, cls, args, obj, pc, calls>>
    /\ UNCHANGED <<load_profile, voltage_profile, fileVars, storeVars, ret,
                   TrainANN, search_type, loop, epVars>>

\* __init__, lines 352-361: the result row of the combination just trained.
\* An exception of the TrainANN(...) call leaves the constructor.
HSAppendResult ==
    /\ hs_pc = "training" /\ pc \in {"returned", "raised"}
    /\ LET mse == Subscript(EvaluateModel, 0)
           mae == Subscript(EvaluateModel, 1)
           row == <<PyFloat(GridLearningRate[loop[1] + 1], 3),
                    PyInt(GridHiddenLayers[loop[2] + 1]),
                    PyInt(GridLayerDensity[loop[3] + 1]), mse, mae>>
       IN  IF pc = "raised" \/ mse.t = "IndexError" \/ mae.t = "IndexError"
           THEN /\ hs_pc' = "raised"
                /\ UNCHANGED <<hs, loop>>
           ELSE /\ hs' = [hs EXCEPT !.solution_matrix =
                             List(Append(hs.solution_matrix.rows, row))]
                /\ loop' = NextLoop(loop)
                /\ hs_pc' = "loop"
    /\ UNCHANGED <<ctorVars, fileVars, storeVars, ret, TrainANN, search_type,
                   results_files, exports, written, epVars>>

\* A client constructs a HyperparamSearch.  The module defines no TrainANN;
\* a program that imports TrainANN from it, as tests/annnohousestiming.py
\* does, needs the name bound to the feedforward trainer first.
HSInit ==
    /\ caller = "client" /\ cls = "HyperparamSearch"
    /\ \E pp \in ProfilePairs : load_profile = pp[1] /\ voltage_profile = pp[2]
    /\ args = DefaultArgs
    /\ obj = NoAttributes
    /\ pc = "idle"
    /\ calls = <<>>
    /\ json_files = NoFiles /\ h5_files = NoFiles /\ h5_open = {}
    /\ StoreIdle /\ EpIdle
    /\ TrainANN \in {"undefined", "ANNRegression"}
    /\ search_type \in {"grid", "random"}
    /\ hs = [solution_matrix |-> Unset, params |-> Unset, runtime |-> Unset]
    /\ hs_pc = "start"
    /\ loop = <<0, 0, 0>>
    /\ results_files = NoFiles
    /\ exports = 0
    /\ written = NoFiles

HSNext ==
    \/ HSBegin
    \/ HSLoop
    \/ HSAppendResult
    \/ ANNSteps
    \/ ANNFinish

SpecHS == HSInit /\ [][HSNext]_vars

\* The grid combination with 0-based number n in nested-loop order.
Combination(n) ==
    LET J == Len(GridHiddenLayers)
        K == Len(GridLayerDensity)
    IN  <<PyFloat(GridLearningRate[(n \div (J * K)) + 1], 3),
          PyInt(GridHiddenLayers[((n \div K) % J) + 1]),
          PyInt(GridLayerDensity[(n % K) + 1])>>

GridSize == Len(GridLearningRate) * Len(GridHiddenLayers) * Len(GridLayerDensity)

\* C4: once the constructor call with data and search_type 'grid' has ended,
\* solution_matrix is the header row [#learning rates, #hidden-layer settings,
\* #densities] followed by one row per grid combination in nested-loop order,
\* each the combination's three parameters and then the error, and the
\* results were exported once.
C4_GridSolutionMatrix ==
    /\ hs_pc \in {"returned", "raised"}
    /\ BothGiven /\ search_type = "grid"
    => LET m == hs.solution_matrix.rows
       IN  /\ Len(m) = 1 + GridSize
           /\ m[1] = <<PyInt(Len(GridLearningRate)), PyInt(Len(GridHiddenLayers)),
                       PyInt(Len(GridLayerDensity))>>
           /\ \A n \in 1..GridSize :
                /\ Len(m[n + 1]) = 4
                /\ SubSeq(m[n + 1], 1, 3) = Combination(n - 1)
           /\ exports = 1

----------------------------------------------------------------------------
(* exportResults and importResults called by a client *)

\* an int, and a negative float with zeros after the point: 12 and -0.001
NumVals == {PyInt(12), PyFloat(-1, 3)}
Rows == UNION {[1..n -> NumVals] : n \in 0..MaxRowLen}
Matrices == UNION {[1..n -> Rows] : n \in 0..MaxMatrixRows}

\* hs.exportResults()
ExportResults ==
    \E ok \in BOOLEAN :
      /\ hs_pc = "returned"
      /\ IF hs.runtime = Unset \/ ~ok
         THEN /\ ret' = Call("exportResults", "-", "-", TRUE, "open", ~ok, None)
              /\ UNCHANGED <<results_files, written>>
         ELSE /\ results_files' = Put(results_files, Str(hs.runtime),
                                      ExportText(hs.solution_matrix.rows))
              /\ written' = Put(written, Str(hs.runtime), hs.solution_matrix.rows)
              /\ ret' = Call("exportResults", "-", "-", FALSE, "none", FALSE, None)
      /\ UNCHANGED <<ctorVars, fileVars, storeVars, TrainANN, search_type, hs,
                     hs_pc, loop, exports, epVars>>

\* hs.importResults(runtime), runtime a str
ImportResults ==
    \E runtime \in {Str(PyInt(r)) : r \in RuntimeVals} :
      /\ hs_pc = "returned"
      /\ IF runtime \notin DOMAIN results_files
         THEN /\ ret' = Call("importResults", "-", runtime, TRUE, "open", FALSE,
                             None)
              /\ UNCHANGED hs
         ELSE LET rows == ImportRows(results_files[runtime])
              IN  IF ImportFails(rows)
                  THEN /\ ret' = Call("importResults", "-", runtime, TRUE,
                                      "float", FALSE, None)
                       /\ UNCHANGED hs
                  ELSE /\ ret' = Call("importResults", "-", runtime, FALSE,
                                      "none", FALSE, None)
                       /\ hs' = [hs EXCEPT !.solution_matrix = List(rows)]
      /\ UNCHANGED <<ctorVars, fileVars, storeVars, TrainANN, search_type,
                     hs_pc, loop, results_files, exports, written, epVars>>

\* A HyperparamSearch object holding some solution_matrix, with the runtime
\* of a finished search or without one.
IOInit ==
    /\ caller = "client" /\ cls = "HyperparamSearch"
    /\ load_profile = None /\ voltage_profile = None
    /\ args = DefaultArgs
    /\ obj = NoAttributes
    /\ pc = "idle"
    /\ calls = <<>>
    /\ json_files = NoFiles /\ h5_files = NoFiles /\ h5_open = {}
    /\ StoreIdle /\ EpIdle
    /\ TrainANN = "undefined"
    /\ search_type = "grid"
    /\ \E m \in Matrices, rt \in {Unset} \cup {PyInt(r) : r \in RuntimeVals} :
         hs = [solution_matrix |-> List(m), params |-> Unset, runtime |-> rt]
    /\ hs_pc = "returned"
    /\ loop = <<0, 0, 0>>
    /\ results_files = NoFiles
    /\ exports = 0
    /\ written = NoFiles

IONext ==
    \/ ExportResults
    \/ ImportResults

SpecIO == IOInit /\ [][IONext]_vars

\* entries joined by ', ', as the claim describes a line
RECURSIVE Joined(_)
Joined(row) ==
    IF Len(row) = 1 THEN Str(row[1])
    ELSE Str(row[1]) \o <<",", " ">> \o Joined(SubSeq(row, 2, Len(row)))

RECURSIVE Flatten(_)
Flatten(lines) ==
    IF lines = <<>> THEN <<>> ELSE lines[1] \o Flatten(SubSeq(lines, 2, Len(lines)))

NonEmptyRows(m) == \A r \in 1..Len(m) : Len(m[r]) > 0

\* C5: importResults(str(self.runtime)) after exportResults gives back the
\* exported solution_matrix when its rows are non-empty: the same number of
\* rows in the same order, each with the same entries as floats; and the file
\* holds one line per row, its entries separated by ', ' with no separator
\* after the last one.
C5_ExportImportRoundTrip ==
    /\ ret.op = "importResults"
    /\ ret.name \in DOMAIN written
    /\ NonEmptyRows(written[ret.name])
    => LET m == written[ret.name]
       IN  /\ ~ret.raised
           /\ Len(hs.solution_matrix.rows) = Len(m)
           /\ \A r \in 1..Len(m) :
                hs.solution_matrix.rows[r] = [c \in 1..Len(m[r]) |-> ToFloat(m[r][c])]
           /\ results_files[ret.name]
                = Flatten([r \in 1..Len(m) |-> Joined(m[r]) \o <<"\n">>])

C5_Witness ==
    /\ ret.op = "importResults" /\ ~ret.raised
    /\ ret.name \in DOMAIN written
    /\ Len(written[ret.name]) = MaxMatrixRows
    /\ \A r \in 1..MaxMatrixRows : Len(written[ret.name][r]) = MaxRowLen
    /\ written[ret.name][1][1] = PyInt(12)
    /\ hs.solution_matrix.rows[1][1] = PyFloat(120, 1)

----------------------------------------------------------------------------
(* epochAnalysis *)

\* PowerFlowSim(50, './data/montecarlo<size>.json'): the simulated loads and
\* node voltages of a study of that size.
PowerFlowSim(size, rows) ==
    [kind |-> "PowerFlowSim", size |-> size,
     node_loads |-> Array(rows), node_voltages |-> Array(VoltageProfileOf(rows))]

SimulatedLoads == {[i \in 1..MaxRows |-> l] : l \in LoadRows}

\* history.epoch[-1]: history.epoch is [0, ..., epochs - 1]
LastEpoch(history) == history.epochs - 1

\* lines 433-436 and 439-440: the next study size's simulation and
\* TrainANN(...) call, or after the last one the return statement.
EpLoop ==
    /\ ep_pc = "loop"
    /\ IF ep_idx < Len(study_sizes)
       THEN \E rows \in SimulatedLoads, ok \in BOOLEAN :
            IF ~ok \/ TrainANN = "undefined"
            THEN /\ ep_pc' = "raised"
                 /\ pfs' = IF ok THEN PowerFlowSim(study_sizes[ep_idx + 1], rows)
                           ELSE pfs
                 /\ ret' = Call("epochAnalysis", "-", "-", TRUE,
                                IF ok THEN "TrainANN" ELSE "PowerFlowSim", ~ok, None)
                 /\ UNCHANGED ctorVars
            ELSE /\ ep_pc' = "training"
                 /\ pfs' = PowerFlowSim(study_sizes[ep_idx + 1], rows)
                 /\ caller' = "epochAnalysis"
                 /\ cls' = TrainANN
                 /\ load_profile' = pfs'.node_loads
                 /\ voltage_profile' = pfs'.node_voltages
                 /\ args' = [DefaultArgs EXCEPT
                               !.no_epochs = EPOCH_ANALYSIS_NO_EPOCHS,
                               !.early_stop = TRUE]
                 /\ obj' = NoAttributes
                 /\ pc' = "start"
                 /\ calls' = <<>>
                 /\ UNCHANGED ret
       ELSE /\ IF pfs = Unset
               THEN /\ ep_pc' = "raised"
                    /\ ret' = Call("epochAnalysis", "-", "-", TRUE, "return",
                                   FALSE, None)
               ELSE /\ ep_pc' = "returned"
                    /\ ret' = Call("epochAnalysis", "-", "-", FALSE, "none", FALSE,
                                   [kind |-> "tuple", pfs |-> pfs, ann |-> obj])
            /\ UNCHANGED <<ctorVars, pfs>>
    /\ UNCHANGED <<fileVars, storeVars, hsVars, study_sizes, ep_idx, results,
                   epochs_run>>

\* lines 437-438: results.append([size, ann.history.epoch[-1]]).  An exception
\* of the TrainANN(...) call leaves the function.
EpAppend ==
    /\ ep_pc = "training" /\ pc \in {"returned", "raised"}
    /\ IF pc = "raised"
       THEN /\ ep_pc' = "raised"
            /\ ret' = Call("epochAnalysis", "-", "-", TRUE, "TrainANN", TRUE, None)
            /\ UNCHANGED <<ep_idx, results, epochs_run>>
       ELSE /\ results' = Append(results, <<study_sizes[ep_idx + 1],
                                            LastEpoch(obj.history)>>)
            /\ epochs_run' = Append(epochs_run, obj.history.epochs)
            /\ ep_idx' = ep_idx + 1
            /\ ep_pc' = "loop"
            /\ UNCHANGED ret
    /\ UNCHANGED <<ctorVars, fileVars, storeVars, hsVars, study_sizes, pfs>>

StudySizeLists == {<<>>, <<5>>, <<10, 5>>, <<5, 10, 15>>}

\* A client calls epochAnalysis(study_sizes).
EpInit ==
    /\ caller = "client" /\ cls = "none"
    /\ load_profile = None /\ voltage_profile = None
    /\ args = DefaultArgs
    /\ obj = NoAttributes
    /\ pc = "idle"
    /\ calls = <<>>
    /\ json_files = NoFiles /\ h5_files = NoFiles /\ h5_open = {}
    /\ StoreIdle
    /\ TrainANN \in {"undefined", "ANNRegression"}
    /\ search_type = "grid"
    /\ hs = [solution_matrix |-> Unset, params |-> Unset, runtime |-> Unset]
    /\ hs_pc = "idle"
    /\ loop = <<0, 0, 0>>
    /\ results_files = NoFiles
    /\ exports = 0
    /\ written = NoFiles
    /\ study_sizes \in StudySizeLists
    /\ ep_pc = "loop"
    /\ ep_idx = 0
    /\ results = <<>>
    /\ epochs_run = <<>>
    /\ pfs = Unset

EpNext ==
    \/ EpLoop
    \/ EpAppend
    \/ ANNSteps
    \/ ANNFinish

SpecEpoch == EpInit /\ [][EpNext]_vars

\* C6: epochAnalysis(study_sizes) returns one [size, epochs] entry per study
\* size, in the order of study_sizes, epochs being the number of epochs the
\* training for that size ran.
C6_ReturnsEpochsPerSize ==
    ret.op = "epochAnalysis" /\ ~ret.raised =>
        /\ ret.value.kind = "list"
        /\ ret.value.rows = [i \in 1..Len(study_sizes) |->
                                <<study_sizes[i], epochs_run[i]>>]

----------------------------------------------------------------------------
(* Claims about the constructors *)

SplitDone == Len(calls) > 0

TrainData ==
    IF cls = "ParametricRegression" THEN obj.train.data ELSE obj.train_data.rows
TrainLabels ==
    IF cls = "ParametricRegression" THEN obj.train.target ELSE obj.train_labels.rows
TestData ==
    IF cls = "ParametricRegression" THEN obj.test.data ELSE obj.test_data.rows
TestLabels ==
    IF cls = "ParametricRegression" THEN obj.test.target ELSE obj.test_labels.rows

\* C1: in all three constructors the train and the test partition together
\* hold every row exactly once, in order (none dropped, none in both), train
\* holds the first int(train_percentage * n) rows, and data and labels are
\* split at the same indices.
C1_SplitIsPartition ==
    SplitDone =>
        /\ TrainData \o TestData = load_profile.rows
        /\ TrainLabels \o TestLabels = voltage_profile.rows
        /\ Len(TrainData) = SplitIndex(args.train_percentage.num,
                                       args.train_percentage.den,
                                       Len(load_profile.rows))
        /\ Len(TrainLabels) = Len(TrainData)
        /\ Len(TestLabels) = Len(TestData)

ExpectedCalls(save_model) ==
    <<"split", "buildModel", "trainModel", "evaluateModel", "predictWithModel">>
    \o (IF save_model THEN <<"saveModel">> ELSE <<>>)

IsPrefix(s, t) == Len(s) <= Len(t) /\ s = SubSeq(t, 1, Len(s))

\* C2: an ANNRegression constructor given both profiles runs data splitting,
\* buildModel, trainModel, evaluateModel, predictWithModel and then saveModel
\* iff save_model, each once and in this order (what has run is always a
\* prefix of that sequence, and all of it when the constructor returns); given
\* a None profile it runs none of them and creates no model, history or
\* model_name.
C2_ConstructionOrder ==
    cls = "ANNRegression" =>
        IF BothGiven
        THEN /\ IsPrefix(calls, ExpectedCalls(args.save_model))
             /\ pc = "returned" => calls = ExpectedCalls(args.save_model)
             /\ obj.model_name # Unset => obj.history # Unset /\ obj.model # Unset
        ELSE /\ calls = <<>>
             /\ pc \in {"start", "returned"}
             /\ obj = NoAttributes
             /\ json_files = NoFiles /\ h5_files = NoFiles

C2_Witness ==
    /\ cls = "ANNRegression" /\ BothGiven /\ pc = "returned"
    /\ args.save_model
    /\ calls[Len(calls)] = "saveModel"
    /\ "ann_model_now" \in DOMAIN h5_files

\* The layers the claim describes, in closed form.
DropoutAdded(dropout) == Truthy(dropout) /\ ~DropoutRejected(dropout)
ExpectedLayers(no_hidden_layers, layer_density, dropout) ==
    IF DropoutAdded(dropout)
    THEN [i \in 1..(2 * no_hidden_layers) |->
            IF i = 2 * no_hidden_layers THEN Dense(RowWidth, "linear")
            ELSE IF i % 2 = 1 THEN Dense(layer_density, "relu")
            ELSE Dropout(dropout)]
    ELSE [i \in 1..(no_hidden_layers + 1) |->
            IF i = no_hidden_layers + 1 THEN Dense(RowWidth, "linear")
            ELSE Dense(layer_density, "relu")]

\* buildModel has returned (it was the last call and did not raise, or a
\* later step has been called).
Built ==
    /\ cls = "ANNRegression"
    /\ \/ pc = "built"
       \/ Len(calls) > 2

\* C8: for no_hidden_layers >= 1 buildModel yields exactly no_hidden_layers
\* hidden Dense layers of layer_density units and then one output Dense layer;
\* with a truthy dropout a Dropout layer precedes each hidden layer after the
\* first, and a Dropout that fails to be added is skipped while the Dense
\* layers, the output layer and the compilation still happen.
C8_BuildModelLayers ==
    Built /\ args.no_hidden_layers >= 1 =>
        /\ obj.model.layers = ExpectedLayers(args.no_hidden_layers,
                                             args.layer_density, args.dropout)
        /\ obj.model.compiled
        /\ Cardinality({i \in DOMAIN obj.model.layers :
                          obj.model.layers[i] = Dense(args.layer_density, "relu")})
             = args.no_hidden_layers

C8_Witness ==
    /\ Built /\ args.no_hidden_layers = MaxHidden
    /\ args.dropout = "bad"
    /\ obj.model.compiled
    /\ Len(obj.model.layers) = MaxHidden + 1

====
